---------------------------- MODULE Spec2Model ----------------------------
(***************************************************************************)
(* Model of the log line parsing package (package logging): the syslog     *)
(* envelope parser SyslogLine.Parse, the tag tokenizer parseTags behind    *)
(* SyslogLine.Tags, and the Unicorn, Nginx and HAProxy adapters.           *)
(*                                                                         *)
(* Go strings are TLA+ strings; a byte of a string is the one-character    *)
(* string SubSeq(s, i, i).  Indices are 1-based here and 0-based in Go.    *)
(***************************************************************************)
EXTENDS Integers, Sequences, FiniteSets, TLC

(***************************************************************************)
(* Strings: the functions of package strings the source calls.             *)
(***************************************************************************)
QUOTE == "\""

\* the byte s[i-1] of Go, and "" outside the string
Char(s, i) == IF 1 <= i /\ i <= Len(s) THEN SubSeq(s, i, i) ELSE ""

Rest(s, i) == SubSeq(s, i, Len(s))

Digits == {"0", "1", "2", "3", "4", "5", "6", "7", "8", "9"}

Lower == {"a", "b", "c", "d", "e", "f", "g", "h", "i", "j", "k", "l", "m",
          "n", "o", "p", "q", "r", "s", "t", "u", "v", "w", "x", "y", "z"}

Upper == {"A", "B", "C", "D", "E", "F", "G", "H", "I", "J", "K", "L", "M",
          "N", "O", "P", "Q", "R", "S", "T", "U", "V", "W", "X", "Y", "Z"}

DigitVal(c) ==
    CASE c = "0" -> 0 [] c = "1" -> 1 [] c = "2" -> 2 [] c = "3" -> 3
      [] c = "4" -> 4 [] c = "5" -> 5 [] c = "6" -> 6 [] c = "7" -> 7
      [] c = "8" -> 8 [] c = "9" -> 9

IsSpace(c) == c \in {" ", "\t"}

AllIn(s, set) == \A i \in 1..Len(s) : Char(s, i) \in set

\* strings.Contains(s, c) for a one-byte c
Contains(s, c) == \E i \in 1..Len(s) : Char(s, i) = c

\* strings.HasPrefix / strings.HasSuffix
HasPrefix(s, p) == Len(s) >= Len(p) /\ SubSeq(s, 1, Len(p)) = p

HasSuffix(s, p) == Len(s) >= Len(p) /\ SubSeq(s, Len(s) - Len(p) + 1, Len(s)) = p

\* whether p occurs in s at index i
StartsAt(s, i, p) ==
    i + Len(p) - 1 <= Len(s) /\ SubSeq(s, i, i + Len(p) - 1) = p

\* strings.Index(s, c) + 1 for a one-byte c; 0 when c does not occur
IndexOf(s, c) ==
    IF Contains(s, c)
    THEN CHOOSE i \in 1..Len(s) :
            Char(s, i) = c /\ \A j \in 1..(i - 1) : Char(s, j) # c
    ELSE 0

\* the k-th smallest element of a finite set of integers
Nth(set, k) == CHOOSE i \in set : Cardinality({j \in set : j < i}) = k - 1

\* strings.Fields: the maximal runs of non-space bytes, in order
Fields(s) ==
    LET starts == {i \in 1..Len(s) :
                     ~IsSpace(Char(s, i)) /\ (i = 1 \/ IsSpace(Char(s, i - 1)))}
        ends   == {i \in 1..Len(s) :
                     ~IsSpace(Char(s, i)) /\ (i = Len(s) \/ IsSpace(Char(s, i + 1)))}
    IN  [k \in 1..Cardinality(starts) |-> SubSeq(s, Nth(starts, k), Nth(ends, k))]

\* strings.Split(s, sep) for a one-byte sep: always at least one part
RECURSIVE Split(_, _)
Split(s, sep) ==
    LET i == IndexOf(s, sep) IN
    IF i = 0 THEN << s >>
    ELSE << SubSeq(s, 1, i - 1) >> \o Split(Rest(s, i + 1), sep)

\* strings.SplitN(s, sep, 2): cut at the first sep only
SplitN2(s, sep) ==
    LET i == IndexOf(s, sep) IN
    IF i = 0 THEN << s >>
    ELSE << SubSeq(s, 1, i - 1), Rest(s, i + 1) >>

\* strings.Join(parts, " ")
RECURSIVE Join(_)
Join(parts) ==
    IF Len(parts) = 0 THEN ""
    ELSE IF Len(parts) = 1 THEN parts[1]
    ELSE parts[1] \o " " \o Join(Tail(parts))

(***************************************************************************)
(* Numbers: strconv.Atoi, strconv.ParseInt(s, 10, 64) and                  *)
(* strconv.ParseFloat(s, 64).  A result is [ok, v]; the source drops the   *)
(* error and keeps v (0 on a syntax error) wherever it writes "x, _ =".    *)
(* Numerals of the inputs stay below ten digits, so the 64-bit range error *)
(* of strconv is not reachable and is not modelled.                        *)
(***************************************************************************)
RECURSIVE DigitsValue(_)
DigitsValue(s) ==
    IF s = "" THEN 0
    ELSE 10 * DigitsValue(SubSeq(s, 1, Len(s) - 1)) + DigitVal(Char(s, Len(s)))

ParseInt(s) ==
    LET signed == Len(s) >= 1 /\ Char(s, 1) \in {"+", "-"}
        body   == IF signed THEN Rest(s, 2) ELSE s
    IN  IF body # "" /\ AllIn(body, Digits)
        THEN [ok |-> TRUE,
              v  |-> IF signed /\ Char(s, 1) = "-"
                     THEN 0 - DigitsValue(body) ELSE DigitsValue(body)]
        ELSE [ok |-> FALSE, v |-> 0]

Atoi(s) == ParseInt(s)

\* A float64 is the decimal mant * 10^(-scale) with no trailing zero in
\* mant; two short decimal numerals denote the same float64 exactly when
\* these agree.  cls tells a finite value from the values of the spelled
\* numerals inf and nan.  Hexadecimal numerals are not drawn as inputs.
RECURSIVE NormFloat(_, _)
NormFloat(mant, scale) ==
    IF mant = 0 THEN [t |-> "float", cls |-> "fin", mant |-> 0, scale |-> 0]
    ELSE IF mant % 10 = 0 THEN NormFloat(mant \div 10, scale - 1)
    ELSE [t |-> "float", cls |-> "fin", mant |-> mant, scale |-> scale]

ZeroFloat == NormFloat(0, 0)

LowerChar(c) ==
    IF c \in Upper
    THEN Char("abcdefghijklmnopqrstuvwxyz", IndexOf("ABCDEFGHIJKLMNOPQRSTUVWXYZ", c))
    ELSE c

RECURSIVE ToLower(_)
ToLower(s) ==
    IF s = "" THEN "" ELSE LowerChar(Char(s, 1)) \o ToLower(Rest(s, 2))

NoFloat == [ok |-> FALSE, v |-> ZeroFloat]

\* the digits ip "." fp and the exponent exp of a decimal numeral
FloatDigits(neg, exp, ip, fp) ==
    IF AllIn(ip, Digits) /\ AllIn(fp, Digits) /\ ip \o fp # "" /\ exp.ok
    THEN [ok |-> TRUE,
          v  |-> NormFloat(IF neg THEN 0 - DigitsValue(ip \o fp)
                                  ELSE DigitsValue(ip \o fp),
                           Len(fp) - exp.v)]
    ELSE NoFloat

FloatMantissa(neg, exp, num, dot) ==
    IF dot = 0 THEN FloatDigits(neg, exp, num, "")
    ELSE FloatDigits(neg, exp, SubSeq(num, 1, dot - 1), Rest(num, dot + 1))

FloatDecimal(neg, body, ePos) ==
    IF ePos = 0
    THEN FloatMantissa(neg, [ok |-> TRUE, v |-> 0], body, IndexOf(body, "."))
    ELSE FloatMantissa(neg, ParseInt(Rest(body, ePos + 1)),
                       SubSeq(body, 1, ePos - 1),
                       IndexOf(SubSeq(body, 1, ePos - 1), "."))

FloatBody(sign, body, low) ==
    IF low \in {"inf", "infinity"}
    THEN [ok |-> TRUE,
          v  |-> [t |-> "float", cls |-> IF sign = "-" THEN "-inf" ELSE "+inf",
                  mant |-> 0, scale |-> 0]]
    ELSE IF low = "nan" /\ sign = ""
    THEN [ok |-> TRUE,
          v  |-> [t |-> "float", cls |-> "nan", mant |-> 0, scale |-> 0]]
    ELSE FloatDecimal(sign = "-", body, IndexOf(low, "e"))

ParseFloat(s) ==
    IF Char(s, 1) \in {"+", "-"}
    THEN FloatBody(Char(s, 1), Rest(s, 2), ToLower(Rest(s, 2)))
    ELSE FloatBody("", s, ToLower(s))

(***************************************************************************)
(* Timestamps: time.Parse under the two layouts of the source.  A time is  *)
(* its civil fields, the nanosecond and the zone offset in seconds.        *)
(***************************************************************************)
ZeroTime ==
    [year |-> 1, month |-> 1, day |-> 1, hour |-> 0, min |-> 0, sec |-> 0,
     nsec |-> 0, zone |-> 0]

NoTime == [ok |-> FALSE, t |-> ZeroTime]

IsLeap(y) == y % 4 = 0 /\ (y % 100 # 0 \/ y % 400 = 0)

DaysIn(m, y) ==
    IF m = 2 THEN (IF IsLeap(y) THEN 29 ELSE 28)
    ELSE IF m \in {4, 6, 9, 11} THEN 30 ELSE 31

RECURSIVE Pow10(_)
Pow10(n) == IF n = 0 THEN 1 ELSE 10 * Pow10(n - 1)

\* parseNanoseconds: the digits after "." or "," as a fraction of a second;
\* at most nine digits count
FracNanos(ds) ==
    IF Len(ds) > 9 THEN DigitsValue(SubSeq(ds, 1, 9))
    ELSE DigitsValue(ds) * Pow10(9 - Len(ds))

\* the number of digits of s from index i on
RECURSIVE DigitRun(_, _)
DigitRun(s, i) ==
    IF Char(s, i) \in Digits THEN 1 + DigitRun(s, i + 1) ELSE 0

Num(s, i, n) == DigitsValue(SubSeq(s, i, i + n - 1))

\* the range checks of time.Parse on the numbers it has read
TimeChecked(t, zh, zm) ==
    IF \/ t.month < 1 \/ t.month > 12
       \/ t.hour >= 24 \/ t.min >= 60 \/ t.sec >= 60
       \/ zh > 24 \/ zm > 60
       \/ t.day < 1 \/ t.day > DaysIn(t.month, t.year)
    THEN NoTime
    ELSE [ok |-> TRUE, t |-> t]

\* value read with the hour at 12..a-1, the fraction (fracLen digits) at
\* frac0 and the zone at z
TimeRead(value, a, frac0, fracLen, z) ==
    IF /\ DigitRun(value, 1) >= 4 /\ Char(value, 5) = "-"
       /\ DigitRun(value, 6) >= 2 /\ Char(value, 8) = "-"
       /\ DigitRun(value, 9) >= 2 /\ Char(value, 11) = "T"
       /\ Char(value, a) = ":"
       /\ DigitRun(value, a + 1) >= 2 /\ Char(value, a + 3) = ":"
       /\ DigitRun(value, a + 4) >= 2
       /\ Len(value) = z + 5
       /\ Char(value, z) \in {"+", "-"}
       /\ DigitRun(value, z + 1) >= 2 /\ Char(value, z + 3) = ":"
       /\ DigitRun(value, z + 4) >= 2
    THEN TimeChecked(
           [year  |-> Num(value, 1, 4), month |-> Num(value, 6, 2),
            day   |-> Num(value, 9, 2), hour  |-> Num(value, 12, a - 12),
            min   |-> Num(value, a + 1, 2), sec |-> Num(value, a + 4, 2),
            nsec  |-> IF fracLen = 0 THEN 0
                      ELSE FracNanos(SubSeq(value, frac0 + 1, frac0 + fracLen)),
            zone  |-> IF Char(value, z) = "-"
                      THEN 0 - (Num(value, z + 1, 2) * 60 + Num(value, z + 4, 2)) * 60
                      ELSE (Num(value, z + 1, 2) * 60 + Num(value, z + 4, 2)) * 60],
           Num(value, z + 1, 2), Num(value, z + 4, 2))
    ELSE NoTime

\* the fraction of a second, from index frac0 on: the layout with
\* ".000000" requires a separator and six digits; the layout without it
\* accepts a separator and any number of digits, or none
TimeFraction(micro, value, a, frac0, run) ==
    IF micro
    THEN IF Char(value, frac0) \in {".", ","} /\ run >= 6
         THEN TimeRead(value, a, frac0, 6, frac0 + 7)
         ELSE NoTime
    ELSE IF Char(value, frac0) \in {".", ","} /\ run >= 1
         THEN TimeRead(value, a, frac0, run, frac0 + 1 + run)
         ELSE TimeRead(value, a, frac0, 0, frac0)

\* the hour is one or two digits; a is the index of the ":" after it
TimeHour(micro, value, a) ==
    TimeFraction(micro, value, a, a + 6, DigitRun(value, a + 7))

\* time.Parse(layout, value): micro tells timeLayout from
\* timeLayoutWithoutMicro.  [ok, t]; t is the zero Time on an error.
TimeParse(micro, value) ==
    IF DigitRun(value, 12) >= 2 THEN TimeHour(micro, value, 14)
    ELSE IF DigitRun(value, 12) = 1 THEN TimeHour(micro, value, 13)
    ELSE NoTime

(***************************************************************************)
(* Errors.  NoError is Go's nil error; a time.ParseError keeps the value   *)
(* it could not parse; fmt.Errorf builds the message of a tag mismatch.    *)
(***************************************************************************)
NoError == [kind |-> "nil", msg |-> ""]

ParseError(value) == [kind |-> "ParseError", msg |-> value]

\* the verb %q (strconv.Quote) on printable ASCII: the text in double
\* quotes, with a backslash before every double quote and backslash
RECURSIVE Escape(_)
Escape(s) ==
    IF s = "" THEN ""
    ELSE (IF Char(s, 1) \in {QUOTE, "\\"} THEN "\\" ELSE "") \o Char(s, 1)
         \o Escape(Rest(s, 2))

GoQuote(s) == QUOTE \o Escape(s) \o QUOTE

\* fmt.Errorf("tag %q not supported", tag)
TagNotSupported(tag) ==
    [kind |-> "errorString", msg |-> "tag " \o GoQuote(tag) \o " not supported"]

\* fmt.Errorf without its argument
TagWasNoArgument(tag) == [kind |-> "errorString", msg |-> "tag was %!s(MISSING)"]

\* fmt.Errorf("tag was %s", tag)
TagWas(tag) == [kind |-> "errorString", msg |-> "tag was " \o tag]

(***************************************************************************)
(* The tag tokenizer.                                                      *)
(***************************************************************************)
\* validKeyRegexp (?i)^[a-z]+$
ValidKey(k) == k # "" /\ AllIn(k, Lower \cup Upper)

\* callsRegexp ^([0-9.]+)\/([0-9]+)$ on value, whose first "/" is at i:
\* the submatches, << >> without a match
CallsSubmatch(value, i) ==
    IF /\ i > 1 /\ AllIn(SubSeq(value, 1, i - 1), Digits \cup {"."})
       /\ i < Len(value) /\ AllIn(Rest(value, i + 1), Digits)
    THEN << value, SubSeq(value, 1, i - 1), Rest(value, i + 1) >>
    ELSE << >>

CallsMatch(value) == CallsSubmatch(value, IndexOf(value, "/"))

\* removeQuotes that returns its argument as it is
RemoveQuotesKeep(raw) == [fault |-> FALSE, s |-> raw]

\* removeQuotes: raw[1 : len(raw)-1] when raw starts and ends with a quote.
\* For the one-byte string of a single quote the slice is raw[1:0], which
\* panics: fault.
removeQuotes(raw) ==
    IF HasPrefix(raw, QUOTE) /\ HasSuffix(raw, QUOTE)
    THEN IF Len(raw) < 2
         THEN [fault |-> TRUE, s |-> ""]
         ELSE [fault |-> FALSE, s |-> SubSeq(raw, 2, Len(raw) - 1)]
    ELSE [fault |-> FALSE, s |-> raw]

IntVal(i) == [t |-> "int", i |-> i]

StrVal(s) == [t |-> "str", s |-> s]

TagValueStr(q) == [fault |-> q.fault, v |-> StrVal(q.s)]

TagValueFloat(f, raw) ==
    IF f.ok THEN [fault |-> FALSE, v |-> f.v]
    ELSE TagValueStr(removeQuotes(raw))

TagValueInt(i, raw) ==
    IF i.ok THEN [fault |-> FALSE, v |-> IntVal(i.v)]
    ELSE TagValueFloat(ParseFloat(raw), raw)

\* parseTagValue: an int64, else a float64, else the text without quotes
parseTagValue(raw) == TagValueInt(ParseInt(raw), raw)

\* t[k] = v on a Go map, a function from its keys
Put(t, k, v) == [x \in (DOMAIN t) \cup {k} |-> IF x = k THEN v ELSE t[x]]

EmptyMap == [x \in {} |-> 0]

\* The loop of parseTags.  Its state st is [inQuotes, currentKey,
\* valueParts, t, fault]; fault is a panic inside the iteration.

\* inside a quoted value, the field closing it: t[currentKey] = removeQuotes(v)
TagClose(st, parts, q) ==
    IF q.fault THEN [st EXCEPT !.fault = TRUE]
    ELSE [st EXCEPT !.valueParts = parts, !.inQuotes = FALSE,
                    !.t = Put(st.t, st.currentKey, StrVal(q.s))]

TagQuoted(st, field, parts) ==
    IF Contains(field, QUOTE)
    THEN TagClose(st, parts, removeQuotes(Join(parts)))
    ELSE [st EXCEPT !.valueParts = parts]

\* the composite value total/calls
TagCalls(st, key, total, calls) ==
    IF total.ok /\ calls.ok
    THEN [st EXCEPT !.currentKey = key,
                    !.t = Put(Put(st.t, key \o "_time", total.v),
                              key \o "_calls", IntVal(calls.v))]
    ELSE [st EXCEPT !.currentKey = key]

TagPlain(st, key, pv) ==
    IF pv.fault THEN [st EXCEPT !.currentKey = key, !.fault = TRUE]
    ELSE [st EXCEPT !.currentKey = "", !.t = Put(st.t, key, pv.v)]

TagEmit(st, key, value, m) ==
    IF Len(m) = 3
    THEN TagCalls(st, key, ParseFloat(m[2]), ParseInt(m[3]))
    ELSE TagPlain(st, key, parseTagValue(value))

TagPair(st, key, value) ==
    IF Contains(value, QUOTE) /\ ~HasSuffix(value, QUOTE)
    THEN [st EXCEPT !.currentKey = key, !.valueParts = << value >>,
                    !.inQuotes = TRUE]
    ELSE IF value # "-"
    THEN TagEmit(st, key, value, CallsMatch(value))
    ELSE [st EXCEPT !.currentKey = key]

TagScan(st, kv) ==
    IF Len(kv) = 2 /\ ValidKey(kv[1]) THEN TagPair(st, kv[1], kv[2]) ELSE st

\* one iteration of the loop on field
TagStep(st, field) ==
    IF st.inQuotes
    THEN TagQuoted(st, field, Append(st.valueParts, field))
    ELSE TagScan(st, SplitN2(field, "="))

RECURSIVE TagLoop(_, _)
TagLoop(st, fields) ==
    IF st.fault \/ Len(fields) = 0 THEN st
    ELSE TagLoop(TagStep(st, Head(fields)), Tail(fields))

TagResult(st) == [fault |-> st.fault, t |-> st.t]

\* parseTags(raw): [fault, t]; fault when the loop panicked
parseTags(raw) ==
    TagResult(TagLoop([inQuotes |-> FALSE, currentKey |-> "",
                       valueParts |-> << >>, t |-> EmptyMap,
                       fault |-> FALSE], Fields(raw)))

(***************************************************************************)
(* The envelope: SyslogLine and its Parse.                                 *)
(***************************************************************************)
NilMap == [isNil |-> TRUE, m |-> EmptyMap]

ZeroSyslogLine ==
    [Raw |-> "", Time |-> ZeroTime, Host |-> "", Tag |-> "", Severity |-> "",
     Pid |-> 0, fields |-> << >>, parsed |-> FALSE, tags |-> NilMap,
     tagsParsed |-> FALSE]

\* TagRegexp (.*?)\[(\d*)\] : the index of the leftmost "[" that digits and
\* "]" follow, or 0
TagRegexpHits(raw) ==
    {j \in 1..Len(raw) :
        Char(raw, j) = "[" /\ Char(raw, j + 1 + DigitRun(raw, j + 1)) = "]"}

TagRegexpAt(raw) ==
    IF TagRegexpHits(raw) = {} THEN 0 ELSE Nth(TagRegexpHits(raw), 1)

\* splitTagAndPid with the match at j: fault is the index tag[len(tag)-1]
\* of an empty tag
SplitTagAndPidAt(raw, j) ==
    IF j > 0
    THEN [fault |-> FALSE, tag |-> SubSeq(raw, 1, j - 1),
          pid |-> Atoi(SubSeq(raw, j + 1, j + DigitRun(raw, j + 1))).v]
    ELSE IF raw = "" THEN [fault |-> TRUE, tag |-> raw, pid |-> 0]
    ELSE IF Char(raw, Len(raw)) = ":"
         THEN [fault |-> FALSE, tag |-> SubSeq(raw, 1, Len(raw) - 1), pid |-> 0]
         ELSE [fault |-> FALSE, tag |-> raw, pid |-> 0]

splitTagAndPid(raw) == SplitTagAndPidAt(raw, TagRegexpAt(raw))

\* splitTagAndSeverity that takes the first two of two parts or more
SeverityPartsAtLeastTwo(raw, parts) ==
    IF Len(parts) >= 2
    THEN [tag |-> parts[1], severity |-> parts[2]]
    ELSE [tag |-> raw, severity |-> ""]

SeverityParts(raw, parts) ==
    IF Len(parts) = 2
    THEN [tag |-> parts[1], severity |-> parts[2]]
    ELSE [tag |-> raw, severity |-> ""]

splitTagAndSeverity(raw) == SeverityParts(raw, Split(raw, "."))

ParseTagResult(tp, ts) ==
    [fault |-> tp.fault, tag |-> ts.tag, severity |-> ts.severity,
     pid |-> tp.pid]

ParseTagSeverity(tp) == ParseTagResult(tp, splitTagAndSeverity(tp.tag))

parseTag(raw) == ParseTagSeverity(splitTagAndPid(raw))

\* the timestamp under timeLayout and, when that fails, under
\* timeLayoutWithoutMicro
FirstOk(t1, t2) == IF t1.ok THEN t1 ELSE t2

ParseTimestamp(value) == FirstOk(TimeParse(TRUE, value), TimeParse(FALSE, value))

\* the envelope of a line of three tokens or more
SyslogLineEnvelope(l1, fields, tm, pt) ==
    IF ~tm.ok
    THEN [line  |-> [l1 EXCEPT !.Time = tm.t],
          err   |-> ParseError(fields[1]),
          fault |-> FALSE]
    ELSE IF pt.fault
    THEN [line  |-> [l1 EXCEPT !.Time = tm.t, !.Host = fields[2]],
          err   |-> NoError,
          fault |-> TRUE]
    ELSE [line  |-> [l1 EXCEPT !.Time = tm.t, !.Host = fields[2],
                               !.Tag = pt.tag, !.Severity = pt.severity,
                               !.Pid = pt.pid, !.parsed = TRUE],
          err   |-> NoError,
          fault |-> FALSE]

\* SyslogLine.Parse that parses the timestamp before it counts the tokens
SyslogLineDeriveTimeFirst(l1, fields) ==
    IF Len(fields) >= 1 /\ Len(fields) < 3 /\ ~ParseTimestamp(fields[1]).ok
    THEN [line  |-> [l1 EXCEPT !.Time = ZeroTime],
          err   |-> ParseError(fields[1]),
          fault |-> FALSE]
    ELSE IF Len(fields) >= 3
    THEN SyslogLineEnvelope(l1, fields, ParseTimestamp(fields[1]),
                            parseTag(fields[3]))
    ELSE [line |-> [l1 EXCEPT !.parsed = TRUE], err |-> NoError,
          fault |-> FALSE]

SyslogLineDerive(l1, fields) ==
    IF Len(fields) >= 3
    THEN SyslogLineEnvelope(l1, fields, ParseTimestamp(fields[1]),
                            parseTag(fields[3]))
    ELSE [line |-> [l1 EXCEPT !.parsed = TRUE], err |-> NoError,
          fault |-> FALSE]

SyslogLineAssign(line, raw, fields) ==
    SyslogLineDerive([line EXCEPT !.Raw = raw, !.fields = fields], fields)

\* SyslogLine.Parse without the test of line.parsed
SyslogLineParseAgain(line, raw) == SyslogLineAssign(line, raw, Fields(raw))

\* SyslogLine.Parse: [line, err, fault]
SyslogLineParse(line, raw) ==
    IF line.parsed THEN [line |-> line, err |-> NoError, fault |-> FALSE]
    ELSE SyslogLineAssign(line, raw, Fields(raw))

TagsComputed(line, r) ==
    IF r.fault
    THEN [line |-> line, ret |-> NilMap, fault |-> TRUE, ran |-> TRUE]
    ELSE [line |-> [line EXCEPT !.tags = [isNil |-> FALSE, m |-> r.t]],
          ret |-> [isNil |-> FALSE, m |-> r.t], fault |-> FALSE, ran |-> TRUE]

\* SyslogLine.Tags: [line, ret, fault, ran]; ran tells whether parseTags ran
SyslogLineTags(line) ==
    IF ~line.tagsParsed
    THEN TagsComputed(line, parseTags(line.Raw))
    ELSE [line |-> line, ret |-> line.tags, fault |-> FALSE, ran |-> FALSE]

(***************************************************************************)
(* The Unicorn adapter.                                                    *)
(***************************************************************************)
ZeroUnicornLine == [UUID |-> "", line |-> ZeroSyslogLine]

UUIDLen == 36

UUIDChars == Lower \cup Digits \cup {"-"}

\* UUIDRegexp ([a-z0-9\-]{36}) : where raw has 36 such bytes in a row
UUIDHits(raw) ==
    {i \in 1..(Len(raw) - UUIDLen + 1) :
        AllIn(SubSeq(raw, i, i + UUIDLen - 1), UUIDChars)}

UUIDAt(raw, hits) ==
    IF hits = {} THEN [found |-> FALSE, s |-> ""]
    ELSE [found |-> TRUE, s |-> SubSeq(raw, Nth(hits, 1), Nth(hits, 1) + UUIDLen - 1)]

\* UUIDRegexp.FindStringSubmatch(raw): the leftmost match
UUIDFind(raw) == UUIDAt(raw, UUIDHits(raw))

\* the text the UUID is searched in: the argument of this Parse call
UnicornUUIDText(rec, raw) == raw

UnicornUUID(rec, uuid) ==
    IF uuid.found
    THEN [rec |-> [rec EXCEPT !.UUID = uuid.s], err |-> NoError, fault |-> FALSE]
    ELSE [rec |-> rec, err |-> NoError, fault |-> FALSE]

\* the adapter after the envelope call b, r1 the record holding b.line
UnicornBody(r1, raw, b) ==
    IF b.fault \/ b.err # NoError
    THEN [rec |-> r1, err |-> b.err, fault |-> b.fault]
    ELSE IF r1.line.Tag # "unicorn"
    THEN [rec |-> r1, err |-> TagNotSupported(r1.line.Tag), fault |-> FALSE]
    ELSE IF Len(r1.line.fields) >= 4
    THEN UnicornUUID(r1, UUIDFind(UnicornUUIDText(r1, raw)))
    ELSE [rec |-> r1, err |-> NoError, fault |-> FALSE]

UnicornEnvelope(rec, raw, b) == UnicornBody([rec EXCEPT !.line = b.line], raw, b)

\* UnicornLine.Parse: [rec, err, fault]
UnicornLineParse(rec, raw) ==
    UnicornEnvelope(rec, raw, SyslogLineParse(rec.line, raw))

(***************************************************************************)
(* The Nginx adapter.  lineNil is the nil *SyslogLine of a fresh record.   *)
(***************************************************************************)
ZeroNginxLine ==
    [lineNil |-> TRUE, line |-> ZeroSyslogLine, Method |-> "", Status |-> "",
     Length |-> 0, TotalTime |-> ZeroFloat, UnicornTime |-> ZeroFloat,
     HttpHost |-> "", UserAgentName |-> "", Uri |-> "", Referer |-> ""]

\* the switch on the key of a key=value token
NginxKeyValue(rec, key, value) ==
    CASE key = "method"       -> [rec EXCEPT !.Method = value]
      [] key = "status"       -> [rec EXCEPT !.Status = value]
      [] key = "host"         -> [rec EXCEPT !.HttpHost = value]
      [] key = "length"       -> [rec EXCEPT !.Length = Atoi(value).v]
      [] key = "total"        -> [rec EXCEPT !.TotalTime = ParseFloat(value).v]
      [] key = "unicorn_time" -> [rec EXCEPT !.UnicornTime = ParseFloat(value).v]
      [] OTHER                -> rec

NginxParts(rec, parts) ==
    IF Len(parts) = 2 THEN NginxKeyValue(rec, parts[1], parts[2]) ELSE rec

\* the body of the loop over line.fields
NginxField(rec, field) == NginxParts(rec, SplitN2(field, "="))

RECURSIVE NginxFields(_, _)
NginxFields(rec, fields) ==
    IF Len(fields) = 0 THEN rec
    ELSE NginxFields(NginxField(rec, Head(fields)), Tail(fields))

QuoteKeys == << "ua", "uri", "ref" >>

\* the alternative of (ua|uri|ref)=" that raw has at byte i, 0 for none
QuoteKeyAt(raw, i) ==
    IF StartsAt(raw, i, "ua=" \o QUOTE) THEN 1
    ELSE IF StartsAt(raw, i, "uri=" \o QUOTE) THEN 2
    ELSE IF StartsAt(raw, i, "ref=" \o QUOTE) THEN 3
    ELSE 0

\* the match of key k whose value starts at from and whose closing quote
\* is the close-th byte from there (0: there is none)
QuoteValue(raw, k, from, close) ==
    IF close = 0
    THEN [found |-> FALSE, key |-> "", value |-> "", next |-> from]
    ELSE [found |-> TRUE, key |-> QuoteKeys[k],
          value |-> SubSeq(raw, from, from + close - 2),
          next |-> from + close]

QuoteFrom(raw, k, from) == QuoteValue(raw, k, from, IndexOf(Rest(raw, from), QUOTE))

QuoteKey(raw, i, k) ==
    IF k = 0
    THEN [found |-> FALSE, key |-> "", value |-> "", next |-> i + 1]
    ELSE QuoteFrom(raw, k, i + Len(QuoteKeys[k]) + 2)

\* quotesRegexp (ua|uri|ref)="(.*?)" tried at byte i of raw:
\* [found, key, value, next], next the index after the match
QuotesMatchAt(raw, i) == QuoteKey(raw, i, QuoteKeyAt(raw, i))

\* the switch on quote[1]
NginxQuote(rec, m) ==
    CASE m.key = "ua"  -> [rec EXCEPT !.UserAgentName = m.value]
      [] m.key = "uri" -> [rec EXCEPT !.Uri = m.value]
      [] m.key = "ref" -> [rec EXCEPT !.Referer = m.value]

QuoteHits(raw, i) == {j \in i..Len(raw) : QuotesMatchAt(raw, j).found}

\* the loop over quotesRegexp.FindAllStringSubmatch(raw, -1): the matches
\* from left to right, each search starting after the previous match
RECURSIVE NginxQuotes(_, _, _)
NginxQuotesNext(rec, raw, m) == NginxQuotes(NginxQuote(rec, m), raw, m.next)

NginxQuotes(rec, raw, i) ==
    IF QuoteHits(raw, i) = {} THEN rec
    ELSE NginxQuotesNext(rec, raw, QuotesMatchAt(raw, Nth(QuoteHits(raw, i), 1)))

\* the text the quoted values are searched in: the argument of this call
NginxQuotesText(rec, raw) == raw

NginxBody(r1, raw, b) ==
    IF b.fault \/ b.err # NoError
    THEN [rec |-> r1, err |-> b.err, fault |-> b.fault]
    ELSE IF r1.line.Tag # "ssl_endpoint" /\ r1.line.Tag # "nginx"
    THEN [rec |-> r1, err |-> TagNotSupported(r1.line.Tag), fault |-> FALSE]
    ELSE [rec |-> NginxQuotes(NginxFields(r1, r1.line.fields),
                              NginxQuotesText(r1, raw), 1),
          err |-> NoError, fault |-> FALSE]

NginxEnvelope(rec, raw, b) ==
    NginxBody([rec EXCEPT !.lineNil = FALSE, !.line = b.line], raw, b)

\* NginxLine.Parse: [rec, err, fault]
NginxLineParse(rec, raw) ==
    NginxEnvelope(rec, raw, SyslogLineParse(rec.line, raw))

(***************************************************************************)
(* The HAProxy adapter.                                                    *)
(***************************************************************************)
ZeroHAProxyLine ==
    [line |-> ZeroSyslogLine, Frontend |-> "", Backend |-> "",
     BackendHost |-> "", BackendImageId |-> "", BackendContainerId |-> "",
     Status |-> "", Length |-> 0, ClientRequestTime |-> 0,
     ConnectionQueueTime |-> 0, TcpConnectTime |-> 0,
     ServerResponseTime |-> 0, SessionDurationTime |-> 0,
     ActiveConnections |-> 0, FrontendConnections |-> 0,
     BackendConnectons |-> 0, ServerConnections |-> 0, Retries |-> 0,
     ServerQueue |-> 0, BackendQueue |-> 0, Method |-> "", Uri |-> ""]

HAProxyMinFields == 16

\* len(line.fields) >= 16
HAProxyHasBodyOffByOne(fields) == Len(fields) >= HAProxyMinFields

\* len(line.fields) > 16
HAProxyHasBody(fields) == Len(fields) > HAProxyMinFields

\* line.fields[k] of Go
At(fields, k) == IF k < Len(fields) THEN fields[k + 1] ELSE ""

\* the topology with line.Backend assigned inside the inner test
HAProxyServerAllOrNothing(rec, backend, inner) ==
    IF Len(inner) = 3
    THEN [rec EXCEPT !.Backend = backend,
                     !.BackendHost = inner[1],
                     !.BackendImageId = inner[2],
                     !.BackendContainerId = inner[3]]
    ELSE rec

\* the second part of token 6, split on ":"
HAProxyServer(rec, backend, inner) ==
    IF Len(inner) = 3
    THEN [rec EXCEPT !.Backend = backend,
                     !.BackendHost = inner[1],
                     !.BackendImageId = inner[2],
                     !.BackendContainerId = inner[3]]
    ELSE [rec EXCEPT !.Backend = backend]

HAProxyBackendParts(rec, parts) ==
    IF Len(parts) = 2
    THEN HAProxyServer(rec, parts[1], Split(parts[2], ":"))
    ELSE rec

\* the topology of token 6: backend/host:image:container
HAProxyBackend(rec, backend) == HAProxyBackendParts(rec, SplitN2(backend, "/"))

HAProxyTimesParts(rec, parts) ==
    IF Len(parts) = 5
    THEN [rec EXCEPT !.ClientRequestTime = Atoi(parts[1]).v,
                     !.ConnectionQueueTime = Atoi(parts[2]).v,
                     !.TcpConnectTime = Atoi(parts[3]).v,
                     !.ServerResponseTime = Atoi(parts[4]).v,
                     !.SessionDurationTime = Atoi(parts[5]).v]
    ELSE rec

HAProxyTimes(rec, times) == HAProxyTimesParts(rec, Split(times, "/"))

HAProxyConnectionsParts(rec, parts) ==
    IF Len(parts) = 5
    THEN [rec EXCEPT !.ActiveConnections = Atoi(parts[1]).v,
                     !.FrontendConnections = Atoi(parts[2]).v,
                     !.BackendConnectons = Atoi(parts[3]).v,
                     !.ServerConnections = Atoi(parts[4]).v,
                     !.Retries = Atoi(parts[5]).v]
    ELSE rec

HAProxyConnections(rec, connections) ==
    HAProxyConnectionsParts(rec, Split(connections, "/"))

HAProxyQueuesParts(rec, parts) ==
    IF Len(parts) = 2
    THEN [rec EXCEPT !.ServerQueue = Atoi(parts[1]).v,
                     !.BackendQueue = Atoi(parts[2]).v]
    ELSE rec

HAProxyQueues(rec, queues) == HAProxyQueuesParts(rec, Split(queues, "/"))

\* The statements of the body in order.  A statement runs when the index
\* it reads exists; the indices grow, so every earlier one exists as well,
\* and the first index that does not exist panics.
HAProxyFrontend(rec, f) ==
    IF Len(f) > 5 THEN [rec EXCEPT !.Frontend = At(f, 5)] ELSE rec

HAProxyToken6(rec, f) ==
    IF Len(f) > 6 THEN HAProxyBackend(rec, At(f, 6)) ELSE rec

HAProxyToken7(rec, f) ==
    IF Len(f) > 7 THEN HAProxyTimes(rec, At(f, 7)) ELSE rec

HAProxyStatus(rec, f) ==
    IF Len(f) > 8 THEN [rec EXCEPT !.Status = At(f, 8)] ELSE rec

HAProxyLength(rec, f) ==
    IF Len(f) > 9 THEN [rec EXCEPT !.Length = Atoi(At(f, 9)).v] ELSE rec

HAProxyToken13(rec, f) ==
    IF Len(f) > 13 THEN HAProxyConnections(rec, At(f, 13)) ELSE rec

HAProxyToken14(rec, f) ==
    IF Len(f) > 14 THEN HAProxyQueues(rec, At(f, 14)) ELSE rec

HAProxyMethod(rec, f) ==
    IF Len(f) > 15 THEN [rec EXCEPT !.Method = Rest(At(f, 15), 2)] ELSE rec

HAProxyUri(rec, f) ==
    IF Len(f) > 16 THEN [rec EXCEPT !.Uri = At(f, 16)] ELSE rec

\* the highest index the body reads
HAProxyLastIndex == 16

HAProxyBody(rec, f) ==
    [rec   |-> HAProxyUri(HAProxyMethod(HAProxyToken14(HAProxyToken13(
                 HAProxyLength(HAProxyStatus(HAProxyToken7(HAProxyToken6(
                   HAProxyFrontend(rec, f), f), f), f), f), f), f), f), f),
     err   |-> NoError,
     fault |-> ~(HAProxyLastIndex < Len(f))]

HAProxyAfter(r1, b) ==
    IF b.fault \/ b.err # NoError
    THEN [rec |-> r1, err |-> b.err, fault |-> b.fault]
    ELSE IF r1.line.Tag # "haproxy"
    THEN [rec |-> r1, err |-> TagWas(r1.line.Tag), fault |-> FALSE]
    ELSE IF HAProxyHasBody(r1.line.fields)
    THEN HAProxyBody(r1, r1.line.fields)
    ELSE [rec |-> r1, err |-> NoError, fault |-> FALSE]

HAProxyEnvelope(rec, b) == HAProxyAfter([rec EXCEPT !.line = b.line], b)

\* HAProxyLine.Parse: [rec, err, fault]
HAProxyLineParse(rec, raw) ==
    HAProxyEnvelope(rec, SyslogLineParse(rec.line, raw))

(***************************************************************************)
(* The raw lines handed to Parse.                                          *)
(***************************************************************************)
TSMicro == "2015-03-04T10:11:12.123456+01:00"

TSPlain == "2015-03-04T10:11:12+01:00"

TagInput == "user=alice key=val call_time=0.5/3 blank=- quoted=\"a b c\""

UnicornUUIDLine ==
    TSMicro \o " web1 unicorn: 123e4567-e89b-12d3-a456-426655440000 GET /a"

UnicornOtherUUIDLine ==
    TSPlain \o " web2 unicorn: 00000000-1111-2222-3333-444444444444 POST /b"

UnicornPlainLine == TSMicro \o " web1 unicorn[7]: worker ready count=5"

NginxLineFull ==
    TSMicro \o " web1 nginx: host=a.com status=200 total=0.12 "
            \o "ua=\"Mozilla 5\" uri=\"/x\" ref=\"-\""

NginxLongKeyLine ==
    TSPlain \o " web1 nginx: status=404 href=\"/y\" aqua=\"z\""

HAProxyFullLine ==
    TSMicro \o " lb1 haproxy[1234]: 10.0.0.1:5000 [04/Mar/2015:10:11:12.000] "
            \o "http-in app/web1:img:cont 0/1/2/3/4 200 512 - - ---- "
            \o "5/4/3/2/1 6/7 \"GET /index.html HTTP/1.1\""

HAProxySixteenLine ==
    TSPlain \o " lb1 haproxy[1234]: 10.0.0.1:5000 [04/Mar/2015:10:11:12.000] "
            \o "http-in app/web1:img:cont 0/1/2/3/4 200 512 - - ---- "
            \o "5/4/3/2/1 6/7 \"GET"

HAProxyNoServerShapeLine ==
    TSPlain \o " lb1 haproxy: 10.0.0.2:5000 [04/Mar/2015:10:11:13.000] "
            \o "http-in app/web1 0/1/2 404 x - - ---- "
            \o "5/4/3 6 \"POST /p"

HAProxyNoSlashLine ==
    TSPlain \o " lb1 haproxy: 10.0.0.2:5000 [04/Mar/2015:10:11:13.000] "
            \o "http-in app 9/8/7/6/5 500 10 - - ---- "
            \o "1/2/3/4/5 0/0 \"PUT /q"

HAProxyTwoSlashLine ==
    TSPlain \o " lb1 haproxy: 10.0.0.2:5000 [04/Mar/2015:10:11:13.000] "
            \o "http-in a/b/c:d:e 9/8/7/6/5 500 10 - - ---- "
            \o "1/2/3/4/5 0/0 \"PUT /q"

\* lines every kind of record is fed: short lines, lines whose first token
\* is no timestamp, and envelopes of programs no adapter knows
\* a key=value token whose value is one quote character
LoneQuoteLine == TSPlain \o " web1 app: k=\""

\* tag tokens made only of ":" and of "[]"
ColonTagLine == TSPlain \o " web1 : x"

BracketsTagLine == TSPlain \o " web1 []: k=\"\" v=7"

\* a method token (index 15) of one character
HAProxyShortMethodLine ==
    TSPlain \o " lb1 haproxy[7]: 10.0.0.1:5000 [04/Mar/2015:10:11:12.000] "
            \o "http-in app/web1:img:cont 0/1/2/3/4 200 512 - - ---- "
            \o "5/4/3/2/1 6/7 G / HTTP/1.1"

CommonLines ==
    { "",
      "yesterday web1",
      "yesterday web1 unicorn: started",
      TagInput,
      TSPlain \o " web1 app.err.x: a.b",
      TSPlain \o " web1 say\"so: x",
      LoneQuoteLine }

SyslogLines ==
    { "hello",
      TSMicro \o " web1",
      "2015-02-30T10:11:12+01:00 web1 nginx: status=200",
      TSMicro \o " web1 cron[123]: job done",
      TSPlain \o " web1 kern.info: boot",
      TSMicro \o " web1 auth.warn[42]: x",
      TSPlain \o "\tweb1  sshd ok",
      TSPlain \o " web1 a.b.c.d[5]: x",
      ColonTagLine,
      BracketsTagLine }

UnicornLines ==
    { UnicornUUIDLine,
      UnicornOtherUUIDLine,
      UnicornPlainLine,
      TSPlain \o " web1 unicorn:",
      NginxLineFull }

NginxLines ==
    { NginxLineFull,
      TSPlain \o " web1 ssl_endpoint: method=GET length=512 unicorn_time=0.05 total=abc",
      NginxLongKeyLine,
      TSPlain \o " web1 nginx: status=301 uri=\"/old path\" ua=curl length=x",
      HAProxyFullLine }

HAProxyLines ==
    { HAProxyFullLine,
      HAProxySixteenLine,
      HAProxyNoServerShapeLine,
      HAProxyNoSlashLine,
      HAProxyTwoSlashLine,
      HAProxyShortMethodLine,
      TSMicro \o " lb1 haproxy[1]: up",
      UnicornUUIDLine }

RawLines(k) ==
    CommonLines \cup
      CASE k = "SyslogLine"  -> SyslogLines
        [] k = "UnicornLine" -> UnicornLines
        [] k = "NginxLine"   -> NginxLines
        [] k = "HAProxyLine" -> HAProxyLines

(***************************************************************************)
(* The state machine: one record instance of one of the four kinds, and    *)
(* its callers' Parse and Tags calls in any order.                         *)
(***************************************************************************)
MaxTagsCalls == 2

Kinds == {"SyslogLine", "UnicornLine", "NginxLine", "HAProxyLine"}

VARIABLES
    kind,        \* the type of the record instance
    rec,         \* the record
    pre,         \* the record as it was before the last call
    call,        \* the last call: its operation, argument and results
    everOk,      \* some Parse call on the instance has returned nil
    everDerived, \* some Parse call has assigned Raw and the token sequence
    tagsCalls,   \* the number of Tags calls so far
    tagsRuns     \* the number of times parseTags ran in them

vars == << kind, rec, pre, call, everOk, everDerived, tagsCalls, tagsRuns >>

ZeroRecord(k) ==
    CASE k = "SyslogLine"  -> [line |-> ZeroSyslogLine]
      [] k = "UnicornLine" -> ZeroUnicornLine
      [] k = "NginxLine"   -> ZeroNginxLine
      [] k = "HAProxyLine" -> ZeroHAProxyLine

NoCall ==
    [op |-> "none", raw |-> "", err |-> NoError, fault |-> FALSE,
     ret |-> NilMap, okBefore |-> FALSE, derivedBefore |-> FALSE]

Init ==
    /\ kind \in Kinds
    /\ rec = ZeroRecord(kind)
    /\ pre = rec
    /\ call = NoCall
    /\ everOk = FALSE
    /\ everDerived = FALSE
    /\ tagsCalls = 0
    /\ tagsRuns = 0

\* a Parse call with result r = [rec, err, fault]; a fault ends the program
Called(r, raw) ==
    /\ rec' = r.rec
    /\ pre' = rec
    /\ call' = [op |-> "Parse", raw |-> raw, err |-> r.err, fault |-> r.fault,
                ret |-> NilMap, okBefore |-> everOk,
                derivedBefore |-> everDerived]
    /\ everOk' = (everOk \/ (~r.fault /\ r.err = NoError))
    /\ everDerived' = (everDerived \/ ~rec.line.parsed)
    /\ UNCHANGED << kind, tagsCalls, tagsRuns >>

\* a SyslogLine is its own record
SyslogRecordParse(r) == [rec |-> [line |-> r.line], err |-> r.err, fault |-> r.fault]

SyslogParse ==
    /\ kind = "SyslogLine" /\ ~call.fault
    /\ \E raw \in RawLines(kind) :
         Called(SyslogRecordParse(SyslogLineParse(rec.line, raw)), raw)

UnicornParse ==
    /\ kind = "UnicornLine" /\ ~call.fault
    /\ \E raw \in RawLines(kind) : Called(UnicornLineParse(rec, raw), raw)

NginxParse ==
    /\ kind = "NginxLine" /\ ~call.fault
    /\ \E raw \in RawLines(kind) : Called(NginxLineParse(rec, raw), raw)

HAProxyParse ==
    /\ kind = "HAProxyLine" /\ ~call.fault
    /\ \E raw \in RawLines(kind) : Called(HAProxyLineParse(rec, raw), raw)

\* a Tags call with result r = [line, ret, fault, ran]
TagsCalled(r) ==
    /\ rec' = [rec EXCEPT !.line = r.line]
    /\ pre' = rec
    /\ call' = [op |-> "Tags", raw |-> "", err |-> NoError, fault |-> r.fault,
                ret |-> r.ret, okBefore |-> everOk,
                derivedBefore |-> everDerived]
    /\ tagsCalls' = tagsCalls + 1
    /\ tagsRuns' = tagsRuns + (IF r.ran THEN 1 ELSE 0)
    /\ UNCHANGED << kind, everOk, everDerived >>

\* Tags(), promoted from the embedded SyslogLine; on a NginxLine whose
\* *SyslogLine is still nil the call dereferences nil
Tags ==
    /\ ~call.fault
    /\ tagsCalls < MaxTagsCalls
    /\ IF kind = "NginxLine" /\ rec.lineNil
       THEN TagsCalled([line |-> rec.line, ret |-> NilMap, fault |-> TRUE,
                        ran |-> FALSE])
       ELSE TagsCalled(SyslogLineTags(rec.line))

Next ==
    \/ SyslogParse
    \/ UnicornParse
    \/ NginxParse
    \/ HAProxyParse
    \/ Tags

Spec == Init /\ [][Next]_vars

(***************************************************************************)
(* Properties.  Each is a predicate on the last call (call), the record    *)
(* before it (pre) and the record after it (rec).                          *)
(***************************************************************************)
Parsed == call.op = "Parse" /\ ~call.fault

\* the fields the envelope stage derives from the raw line
EnvelopeFields(l) ==
    << l.Raw, l.Time, l.Host, l.Tag, l.Severity, l.Pid, l.fields >>

\* the format-specific fields of a record: the record without its envelope
FormatFields(r) == [f \in (DOMAIN r) \ {"line", "lineNil"} |-> r[f]]

\* C1: after a Parse call that returned success, a later Parse call on the
\* same instance, whatever its raw line, returns success and leaves every
\* field of the record (the envelope fields and the format-specific
\* fields) as it was.
SecondParseIsNoOp_C1 ==
    (Parsed /\ call.okBefore)
        => /\ call.err = NoError
           /\ EnvelopeFields(rec.line) = EnvelopeFields(pre.line)
           /\ FormatFields(rec) = FormatFields(pre)

\* C2: over any sequence of Tags() calls on one record the tokenizer
\* (parseTags) runs on the first call only: it never runs twice.
TokenizerRunsOnce_C2 == tagsRuns <= 1

\* C3 as claimed: once a Parse call has derived the token sequence from a
\* raw text (even a call that failed with a timestamp error), no later
\* Parse call replaces Raw, the token sequence or Time.
DerivedAtMostOnce_C3 ==
    (Parsed /\ call.derivedBefore)
        => /\ rec.line.Raw = pre.line.Raw
           /\ rec.line.fields = pre.line.fields
           /\ rec.line.Time = pre.line.Time

\* C3 as amended: once the envelope stage of a Parse call has succeeded,
\* no later Parse call replaces Raw, the token sequence or Time; while it
\* has not (no call yet, or only calls that failed with a timestamp
\* error), a Parse call derives Raw and the token sequence from its own
\* raw line.
DerivedOnceAfterSuccess_C3 ==
    Parsed
        => /\ pre.line.parsed
                => /\ rec.line.Raw = pre.line.Raw
                   /\ rec.line.fields = pre.line.fields
                   /\ rec.line.Time = pre.line.Time
           /\ ~pre.line.parsed
                => /\ rec.line.Raw = call.raw
                   /\ rec.line.fields = Fields(call.raw)

\* a Parse call with another raw line after a successful one kept the first
\* line's tokens
DerivedOnceWitness_C3 ==
    /\ Parsed /\ pre.line.parsed
    /\ call.raw # pre.line.Raw
    /\ Len(Fields(call.raw)) >= 3
    /\ rec.line.Raw = pre.line.Raw
    /\ Len(rec.line.fields) >= 3

TagsOfTagInput == call.op = "Tags" /\ ~call.fault /\ pre.line.Raw = TagInput

\* C4 as claimed: the tokenizer applied to TagInput returns exactly
\* {user: "alice", key: "val", call_time_time: 0.5, call_time_calls: 3,
\* quoted: "a b c"}.
TagInputMapping_C4 ==
    TagsOfTagInput
        => call.ret.m = [k \in {"user", "key", "call_time_time",
                                "call_time_calls", "quoted"} |->
                           CASE k = "user" -> StrVal("alice")
                             [] k = "key" -> StrVal("val")
                             [] k = "call_time_time" -> NormFloat(5, 1)
                             [] k = "call_time_calls" -> IntVal(3)
                             [] k = "quoted" -> StrVal("a b c")]

\* C4 as amended: the tokenizer applied to TagInput returns exactly
\* {user: "alice", key: "val", quoted: "a b c"}: the token call_time=0.5/3
\* is skipped, its key not being alphabetic, the key blank is absent, and
\* the quoted multi-word value is joined with single spaces, its quotes
\* stripped.
TagInputMappingNoComposite_C4 ==
    TagsOfTagInput
        => call.ret.m = [k \in {"user", "key", "quoted"} |->
                           CASE k = "user" -> StrVal("alice")
                             [] k = "key" -> StrVal("val")
                             [] k = "quoted" -> StrVal("a b c")]

\* Tags() has run the tokenizer on TagInput and returned its mapping
TagInputWitness_C4 ==
    /\ TagsOfTagInput
    /\ ~call.ret.isNil
    /\ "quoted" \in DOMAIN call.ret.m

\* the program names an adapter expects
ExpectedTags(k) ==
    CASE k = "UnicornLine" -> {"unicorn"}
      [] k = "NginxLine"   -> {"ssl_endpoint", "nginx"}
      [] k = "HAProxyLine" -> {"haproxy"}
      [] OTHER             -> {}

\* the text of a quoted string: the inverse of %q on printable ASCII
RECURSIVE Unescape(_)
Unescape(s) ==
    IF s = "" THEN ""
    ELSE IF Char(s, 1) = "\\" THEN Char(s, 2) \o Unescape(Rest(s, 3))
    ELSE Char(s, 1) \o Unescape(Rest(s, 2))

Unquote(s) == Unescape(SubSeq(s, 2, Len(s) - 1))

\* the tag an error message carries: << tag >>, or << >> when it has none
CarriedTag(k, msg) ==
    IF k = "HAProxyLine"
    THEN IF HasPrefix(msg, "tag was ") THEN << Rest(msg, 9) >> ELSE << >>
    ELSE IF /\ HasPrefix(msg, "tag " \o QUOTE)
            /\ HasSuffix(msg, QUOTE \o " not supported")
         THEN << Unquote(SubSeq(msg, 5, Len(msg) - 14)) >>
         ELSE << >>

\* C5: for each adapter, when the envelope stage succeeds and the tag is
\* not an expected program name, Parse returns an error that carries the
\* observed tag and every format-specific field stays at its zero value
\* (a Unicorn-tagged line fed to the HAProxy adapter: an error carrying
\* "unicorn"); when the tag is an expected name, Parse returns no error.
AdapterTagMismatch_C5 ==
    (Parsed /\ kind # "SyslogLine" /\ rec.line.parsed)
        => /\ rec.line.Tag \in ExpectedTags(kind) => call.err = NoError
           /\ rec.line.Tag \notin ExpectedTags(kind)
                => /\ call.err.kind = "errorString"
                   /\ CarriedTag(kind, call.err.msg) = << rec.line.Tag >>
                   /\ FormatFields(rec) = FormatFields(ZeroRecord(kind))
           /\ (kind = "HAProxyLine" /\ rec.line.Raw = UnicornUUIDLine)
                => CarriedTag(kind, call.err.msg) = << "unicorn" >>

\* the HAProxy adapter was fed a Unicorn line and refused its tag
AdapterTagMismatchWitness_C5 ==
    /\ Parsed /\ kind = "HAProxyLine"
    /\ call.raw = UnicornUUIDLine /\ rec.line.Raw = UnicornUUIDLine
    /\ rec.line.parsed /\ rec.line.Tag = "unicorn"
    /\ call.err # NoError

\* C6: envelope Parse of a raw line with fewer than 3 tokens returns no
\* error, whatever the tokens are, and leaves Time, Host, Tag, Severity and
\* Pid as they were: at their zero values on a record no Parse call has
\* parsed before.
ShortEnvelope_C6 ==
    (Parsed /\ Len(Fields(call.raw)) < 3)
        => /\ kind = "SyslogLine" => call.err = NoError
           /\ rec.line.Time = pre.line.Time
           /\ rec.line.Host = pre.line.Host
           /\ rec.line.Tag = pre.line.Tag
           /\ rec.line.Severity = pre.line.Severity
           /\ rec.line.Pid = pre.line.Pid
           /\ ~pre.line.parsed
                => /\ rec.line.Time = ZeroTime
                   /\ rec.line.Host = ""
                   /\ rec.line.Tag = ""
                   /\ rec.line.Severity = ""
                   /\ rec.line.Pid = 0
                   /\ rec.line.Raw = call.raw
                   /\ rec.line.parsed

\* a two-token line whose first token is no timestamp was parsed by a
\* fresh SyslogLine
ShortEnvelopeWitness_C6 ==
    /\ Parsed /\ kind = "SyslogLine"
    /\ ~pre.line.parsed
    /\ call.raw = "yesterday web1"
    /\ rec.line.fields = << "yesterday", "web1" >>
    /\ call.err = NoError

\* where raw has key as a whole key: at the start of a token, followed by
\* =" and, later, a closing quote
ExactKeyHits(raw, key) ==
    {i \in 1..Len(raw) :
        /\ StartsAt(raw, i, key \o "=" \o QUOTE)
        /\ i = 1 \/ IsSpace(Char(raw, i - 1))
        /\ Contains(Rest(raw, i + Len(key) + 2), QUOTE)}

\* the quoted value of the key at i, inner spaces included
ExactKeyValue(raw, key, i) ==
    SubSeq(raw, i + Len(key) + 2,
           i + Len(key) + IndexOf(Rest(raw, i + Len(key) + 2), QUOTE))

QuotedFieldIsExactKey(raw, key, field) ==
    IF ExactKeyHits(raw, key) = {} THEN field = ""
    ELSE \E i \in ExactKeyHits(raw, key) : field = ExactKeyValue(raw, key, i)

\* C7: after a successful Nginx Parse of a fresh record, UserAgentName
\* (Uri, Referer) is the full quoted value of the key ua (uri, ref) of the
\* raw text, and is empty when the raw text has no key that is exactly ua
\* (uri, ref) with a quoted value: no longer key ending in ua, uri or ref
\* populates it.
NginxQuotedExactKeys_C7 ==
    (Parsed /\ kind = "NginxLine" /\ ~pre.line.parsed /\ call.err = NoError)
        => /\ QuotedFieldIsExactKey(call.raw, "ua", rec.UserAgentName)
           /\ QuotedFieldIsExactKey(call.raw, "uri", rec.Uri)
           /\ QuotedFieldIsExactKey(call.raw, "ref", rec.Referer)

HAProxyFormatIsZero ==
    FormatFields(rec) = FormatFields(ZeroHAProxyLine)

\* C8: HAProxy Parse of a line tagged haproxy populates format-specific
\* fields only when the token sequence has more than 16 entries: with 16
\* or fewer it returns no error and every HAProxy-specific field stays at
\* its zero value; with 17 or more every index it reads (5 to 16) exists.
HAProxyBodyNeeds17_C8 ==
    (call.op = "Parse" /\ kind = "HAProxyLine")
        => /\ ~call.fault
           /\ (rec.line.parsed /\ rec.line.Tag = "haproxy"
                 /\ Len(rec.line.fields) <= 16)
                => call.err = NoError /\ HAProxyFormatIsZero
           /\ ~HAProxyFormatIsZero
                => Len(rec.line.fields) >= HAProxyLastIndex + 1

\* a haproxy line of exactly 16 tokens was parsed
HAProxyBodyWitness_C8 ==
    /\ Parsed /\ kind = "HAProxyLine"
    /\ call.raw = HAProxySixteenLine
    /\ rec.line.Tag = "haproxy"
    /\ Len(rec.line.fields) = 16
    /\ call.err = NoError

\* a haproxy line whose body was read: more than 16 tokens
HAProxyBodyRead ==
    /\ Parsed /\ kind = "HAProxyLine" /\ call.err = NoError
    /\ rec.line.Tag = "haproxy" /\ Len(rec.line.fields) > 16

Topology(r) ==
    << r.Backend, r.BackendHost, r.BackendImageId, r.BackendContainerId >>

Count(s, c) == Cardinality({i \in 1..Len(s) : Char(s, i) = c})

\* C9 as claimed: the topology fields are populated only if token 6 has
\* exactly the shape backend/host:image:container (two "/"-parts, the
\* second of three ":"-parts), and are then its four components; for any
\* other shape all four stay empty.
HAProxyTopologyExactShape_C9 ==
    HAProxyBodyRead
        => IF /\ Len(Split(rec.line.fields[7], "/")) = 2
              /\ Len(Split(Split(rec.line.fields[7], "/")[2], ":")) = 3
           THEN Topology(rec) =
                  << Split(rec.line.fields[7], "/")[1] >>
                    \o Split(Split(rec.line.fields[7], "/")[2], ":")
           ELSE Topology(rec) = << "", "", "", "" >>

\* the text of s before its first c, and after it
BeforeFirst(s, c) == SubSeq(s, 1, IndexOf(s, c) - 1)

AfterFirst(s, c) == Rest(s, IndexOf(s, c) + 1)

\* C9 as amended: Backend is the text of token 6 before its first "/"
\* whenever token 6 has a "/"; BackendHost, BackendImageId and
\* BackendContainerId are the three ":"-parts of the text after that "/"
\* when it has exactly three, and stay empty otherwise; without a "/" in
\* token 6 all four stay empty.
HAProxyTopologyNested_C9 ==
    HAProxyBodyRead
        => IF Count(rec.line.fields[7], "/") = 0
           THEN Topology(rec) = << "", "", "", "" >>
           ELSE /\ rec.Backend = BeforeFirst(rec.line.fields[7], "/")
                /\ IF Count(AfterFirst(rec.line.fields[7], "/"), ":") = 2
                   THEN << rec.BackendHost, rec.BackendImageId,
                           rec.BackendContainerId >>
                          = Split(AfterFirst(rec.line.fields[7], "/"), ":")
                   ELSE << rec.BackendHost, rec.BackendImageId,
                           rec.BackendContainerId >> = << "", "", "" >>

\* token 6 was backend/server with a server of one part: only Backend is set
HAProxyTopologyWitness_C9 ==
    /\ HAProxyBodyRead
    /\ rec.line.fields[7] = "app/web1"
    /\ Topology(rec) = << "app", "", "", "" >>

\* a Parse call that ran the envelope stage on a line of 3 tokens or more
EnvelopeRead ==
    /\ Parsed /\ ~pre.line.parsed /\ rec.line.parsed
    /\ Len(rec.line.fields) >= 3

\* the tag candidate: token 2 after the name[digits] / trailing-colon step
Candidate == splitTagAndPid(rec.line.fields[3]).tag

\* C10 as claimed: the tag candidate is split on its first "." only: with
\* a "." in it, Tag is the text before the first "." and Severity all the
\* text after it; without one, Tag is the candidate and Severity is empty.
SeverityAfterFirstDot_C10 ==
    EnvelopeRead
        => IF Count(Candidate, ".") >= 1
           THEN /\ rec.line.Tag = BeforeFirst(Candidate, ".")
                /\ rec.line.Severity = AfterFirst(Candidate, ".")
           ELSE rec.line.Tag = Candidate /\ rec.line.Severity = ""

\* C10 as amended: when the tag candidate contains exactly one ".", Tag is
\* the text before it and Severity the text after it; when it contains no
\* "." or more than one, Tag is the whole candidate and Severity is empty.
SeverityOnlyWithOneDot_C10 ==
    EnvelopeRead
        => IF Count(Candidate, ".") = 1
           THEN /\ rec.line.Tag = BeforeFirst(Candidate, ".")
                /\ rec.line.Severity = AfterFirst(Candidate, ".")
           ELSE rec.line.Tag = Candidate /\ rec.line.Severity = ""

\* a candidate with two dots was kept whole
SeverityWitness_C10 ==
    /\ EnvelopeRead
    /\ rec.line.fields[3] = "app.err.x:"
    /\ rec.line.Tag = "app.err.x"
    /\ rec.line.Severity = ""


\* C11: parsing is total: every Parse call and every Tags() call returns a
\* result (success, an error value or a mapping) and none aborts with a
\* runtime fault.
NoRuntimeFault_C11 == ~call.fault

\* the abort of C11 that needs no misuse of the record: Tags() after a Parse
\* that returned nil, on a record whose Raw holds the token k="
TagsAfterParseNoFault_C11 ==
    (call.op = "Tags" /\ call.okBefore) => ~call.fault

=============================================================================
